---- MODULE Spec2Model ----
(***************************************************************************)
(* A model of the Rita go-streamer bridge: the live-pipe bridge of         *)
(* src/stream.go and the file-based bridge of src/stream-file.go.          *)
(*                                                                         *)
(* The bootstrap (func main) is a sequential process whose position is pc. *)
(* Beside it run the sender that feeds the two named pipes, the two ffmpeg *)
(* encoder subprocesses, the two reader-track publishers (which invoke the *)
(* OnWriteComplete callbacks) and the remote peers of the room.            *)
(*                                                                         *)
(* Time is counted in milliseconds for the timing statistics, on one clock  *)
(* that both callbacks read, and in whole seconds (one per time.Sleep of   *)
(* the monitor loop) for peer presence.                                    *)
(***************************************************************************)
EXTENDS Integers, Sequences, FiniteSets, TLC

Kinds == {"video", "audio"}

\* ----------------------------------------------------------------- bounds
\* Identities of the remote peers that may join the room.
MaxPeers == 1
\* Length of the recorded window of peer snapshots.
MaxHist == 6
\* Callback invocations per media kind during a whole bridge run.
MaxFrames == 2
\* Callback invocations per media kind when only the statistics run.
MaxStatFrames == 4
\* Bytes the sender writes to a pipe after the video header.
MaxData == 1
\* Invocations of the video callback in a run long enough for a periodic report.
MaxReportFrames == 101
\* Length of the largest buffer a publisher passes to Read.
BufLen == 6

\* ------------------------------------------------------ program constants
\* time.Hour, the initial minEncodeTime, in milliseconds.
Hour == 3600000
\* "if noParticipantsCount >= 3"
Threshold == 3
\* "exit when none are found for 3 seconds"
AbsenceSecs == 3
\* "if frameCount%100 == 0"
VideoReportEvery == 100
\* "if audioFrameCount%500 == 0"
AudioReportEvery == 500
\* the two uint32 of the header: 2 * 4 bytes
WordLen == 4

Peers == 1..MaxPeers

\* The 8-byte headers a sender may write: 512x288, and one whose eight bytes
\* all differ (so that byte order and field order both show).
VideoHeaders == { <<0, 2, 0, 0, 32, 1, 0, 0>>, <<1, 2, 3, 4, 5, 6, 7, 8>> }

\* Compressed streams a video encoder may write: a 3-byte start code at offset
\* 1, and a 4-byte start code at offset 0.
VideoOutputs == { <<9, 0, 0, 1, 5, 5>>, <<0, 0, 0, 1, 5, 5>> }
\* Compressed streams an audio encoder may write.
AudioOutputs == { <<79, 103>> }
\* The wrapping reader types of the program.
Wrappers == {"debug", "h264"}
\* Lengths of the buffers a publisher passes to Read.
BufLens == {2, BufLen}

\* Time (ms) from one callback invocation, of either kind, to the next
\* invocation of the video callback during a whole bridge run.
RunIntervals == {40}
\* The same to the next invocation of the audio callback.
AudioIntervals == {20}
\* The same when only the statistics run: zero, the nominal frame duration, a
\* late frame, and intervals of an hour and more.
StatIntervals == {0, 40, 45, Hour, Hour + 40}

VARIABLES
  variant,        \* "pipe" (stream.go) or "file" (stream-file.go)
  pc,             \* position of func main
  fatalAt,        \* the step whose error ended the process, or "none"
  sndOrder,       \* order in which the sender opens its two pipes
  sndPc,          \* position of the sender
  vHeader,        \* the header the sender means to write
  vchan,          \* bytes written to the raw video pipe so far
  vtaken,         \* who consumed each byte of the raw video pipe, in order
  awritten,       \* number of bytes written to the raw audio pipe
  ataken,         \* who consumed each byte of the raw audio pipe, in order
  rdOpen,         \* pipes the bridge has open for reading
  wrOpen,         \* pipes the sender has open for writing
  frameWidth,
  frameHeight,
  session,        \* "none", "connected", "disconnected"
  disconnects,    \* calls of room.Disconnect
  published,      \* kinds published, in order of publication
  trackDims,      \* VideoWidth, VideoHeight given to PublishTrack
  sizeArg,        \* the "-s" argument of the video ffmpeg command
  enc,            \* per kind: "none", "running", "exited", "killed"
  kills,          \* per kind: calls of Process.Kill
  track,          \* per kind: "none", "created", "running", "ended"
  peers,          \* remote participants currently in the room
  noParticipantsCount,
  hist,           \* the last MaxHist snapshots: TRUE for an empty one
  sampleNo,       \* snapshots taken, counted up to MaxHist + 1
  emptyFor,       \* whole seconds the room had been empty without a break, counted
                  \* until main leaves the monitor loop
  sinceSeen,      \* whole seconds since a snapshot last showed a peer
  frameCount,
  lastFrameTime,
  totalEncodeTime,
  maxEncodeTime,
  minEncodeTime,
  startTime,
  firstVideoFrame,
  firstAudioFrame,
  audioFrameCount,
  clock,          \* the wall clock: the last reading time.Now() returned, in ms
  vCalls,         \* invocations of the video callback
  aCalls,         \* invocations of the audio callback
  ivals,          \* the intervals between successive video callbacks
  videoStats,     \* final video statistics lines printed
  audioStats,     \* final audio statistics lines printed
  foreign,        \* accesses to a timing variable by a task that is not its writer
  avgDivisors,    \* the divisors of every totalEncodeTime / frameCount evaluated
  waited,         \* seconds slept by the file variant before teardown
  finalFrames,    \* frameCount as the final report read it, -1 before the report
  firstAt,        \* per kind: the instant of the first invocation of its callback, or -1
  prevAt,         \* per kind: the instant of the latest invocation of its callback, or -1
  gaps,           \* per kind: the time between successive invocations of its callback
  encOut,         \* per kind: the bytes the encoder writes to its standard output
  emitN,          \* per kind: how many of them it has written so far
  under,          \* per kind: the StdoutPipe: bytes read from it, Read calls made on it
  seen,           \* per kind: the bytes the publisher was handed, in order
  wCalls,         \* per kind: calls of Read on the wrapping reader
  lastRead        \* the last call of a wrapping reader's Read

mainVars  == <<variant, pc, fatalAt>>
pipeVars  == <<sndOrder, sndPc, vHeader, vchan, vtaken, awritten, ataken, rdOpen, wrOpen>>
hdrVars   == <<frameWidth, frameHeight>>
sessVars  == <<session, disconnects, published, trackDims>>
encVars   == <<sizeArg, enc, kills>>
monVars   == <<peers, noParticipantsCount, hist, sampleNo, emptyFor, sinceSeen>>
timeVars  == <<frameCount, lastFrameTime, totalEncodeTime, maxEncodeTime, minEncodeTime,
               startTime, firstVideoFrame, firstAudioFrame, audioFrameCount, clock>>
ghostVars == <<vCalls, aCalls, ivals, videoStats, audioStats, foreign, avgDivisors, waited,
               finalFrames, firstAt, prevAt, gaps>>
readVars  == <<encOut, emitN, under, seen, wCalls, lastRead>>

vars == <<mainVars, pipeVars, hdrVars, sessVars, encVars, track, monVars, timeVars, ghostVars, readVars>>

\* ---------------------------------------------------------------- helpers
Min(a, b) == IF a < b THEN a ELSE b

Tags(n, who) == [i \in 1..n |-> who]

Exited == pc \in {"fatal", "panic", "done"}

\* ------------------------------------------------------- order of func main
\* SuccPipe with the audio track published before the video track is created.
SuccPipeMut(p) ==
  CASE p = "args"    -> "env"
    [] p = "env"     -> "mkfifoV"
    [] p = "mkfifoV" -> "mkfifoA"
    [] p = "mkfifoA" -> "openV"
    [] p = "openV"   -> "openA"
    [] p = "openA"   -> "readW"
    [] p = "readW"   -> "readH"
    [] p = "readH"   -> "connect"
    [] p = "connect" -> "cmds"
    [] p = "cmds"    -> "pipeV"
    [] p = "pipeV"   -> "pipeA"
    [] p = "pipeA"   -> "startV"
    [] p = "startV"  -> "startA"
    [] p = "startA"  -> "trackA"
    [] p = "trackA"  -> "pubA"
    [] p = "pubA"    -> "trackV"
    [] p = "trackV"  -> "pubV"
    [] p = "pubV"    -> "sleep"
    [] p = "sleep"   -> "sample"
    [] p = "sample"  -> "stats"
    [] p = "stats"   -> "killV"
    [] p = "killV"   -> "killA"
    [] p = "killA"   -> "disc"
    [] p = "disc"    -> "done"
    [] OTHER         -> p

\* The statement that follows statement p of the live-pipe main.
SuccPipe(p) ==
  CASE p = "args"    -> "env"
    [] p = "env"     -> "mkfifoV"
    [] p = "mkfifoV" -> "mkfifoA"
    [] p = "mkfifoA" -> "openV"
    [] p = "openV"   -> "openA"
    [] p = "openA"   -> "readW"
    [] p = "readW"   -> "readH"
    [] p = "readH"   -> "connect"
    [] p = "connect" -> "cmds"
    [] p = "cmds"    -> "pipeV"
    [] p = "pipeV"   -> "pipeA"
    [] p = "pipeA"   -> "startV"
    [] p = "startV"  -> "startA"
    [] p = "startA"  -> "trackV"
    [] p = "trackV"  -> "trackA"
    [] p = "trackA"  -> "pubA"
    [] p = "pubA"    -> "pubV"
    [] p = "pubV"    -> "sleep"
    [] p = "sleep"   -> "sample"
    [] p = "sample"  -> "stats"
    [] p = "stats"   -> "killV"
    [] p = "killV"   -> "killA"
    [] p = "killA"   -> "disc"
    [] p = "disc"    -> "done"
    [] OTHER         -> p

\* The statement that follows statement p of the file-based main.
SuccFile(p) ==
  CASE p = "env"     -> "connect"
    [] p = "connect" -> "cmds"
    [] p = "cmds"    -> "pipeV"
    [] p = "pipeV"   -> "pipeA"
    [] p = "pipeA"   -> "startV"
    [] p = "startV"  -> "startA"
    [] p = "startA"  -> "trackV"
    [] p = "trackV"  -> "trackA"
    [] p = "trackA"  -> "pubV"
    [] p = "pubV"    -> "pubA"
    [] p = "pubA"    -> "wait"
    [] p = "wait"    -> "stats"
    [] p = "stats"   -> "killV"
    [] p = "killV"   -> "killA"
    [] p = "killA"   -> "disc"
    [] p = "disc"    -> "done"
    [] OTHER         -> p

\* Succ with the kill of the audio encoder left out of the teardown.
SuccMut(v, p) ==
  IF p = "killV" THEN "disc"
  ELSE IF v = "pipe" THEN SuccPipe(p) ELSE SuccFile(p)

\* Succ with the fixed wait of the file-based bridge left out.
SuccNoWait(v, p) ==
  IF v = "file" /\ p = "pubA" THEN "stats"
  ELSE IF v = "pipe" THEN SuccPipe(p) ELSE SuccFile(p)

\* Succ with the monitor loop of the live-pipe bridge entered after the first
\* publication.
SuccMonitorEarly(v, p) ==
  IF v = "pipe" /\ p = "pubA" THEN "sleep"
  ELSE IF v = "pipe" THEN SuccPipe(p) ELSE SuccFile(p)

\* Succ with the audio pipe opened before the video pipe.
SuccAudioFirst(v, p) ==
  IF v = "pipe" /\ p = "mkfifoA" THEN "openA"
  ELSE IF v = "pipe" /\ p = "openA" THEN "openV"
  ELSE IF v = "pipe" /\ p = "openV" THEN "readW"
  ELSE IF v = "pipe" THEN SuccPipe(p) ELSE SuccFile(p)

Succ(v, p) == IF v = "pipe" THEN SuccPipe(p) ELSE SuccFile(p)

\* Statement p completes and main goes on to the next statement.
Step(p) ==
  /\ pc = p
  /\ pc' = Succ(variant, p)
  /\ UNCHANGED <<variant, fatalAt>>

\* Statement p fails and log.Fatal ends the process: os.Exit(1), which runs no
\* deferred call and no later statement.
Fatal(p) ==
  /\ pc = p
  /\ pc' = "fatal"
  /\ fatalAt' = p
  /\ UNCHANGED variant

\* ------------------------------------------------------------ header codec
\* The big-endian reading of a 4-byte sequence.
LittleEndianUint32Mut(b) == b[4] + 256 * b[3] + 65536 * b[2] + 16777216 * b[1]

\* binary.LittleEndian.Uint32 of a 4-byte sequence.
LittleEndianUint32(b) == b[1] + 256 * b[2] + 65536 * b[3] + 16777216 * b[4]

\* A buffered reader in place of io.ReadFull: it takes all that is there.
ReadFullTakeMut(avail, n) == avail

\* Bytes io.ReadFull takes from a channel holding avail unread bytes when asked
\* for n: all n once they are there, else what is left before the end.
ReadFullTake(avail, n) == IF avail >= n THEN n ELSE avail

DigitChars == <<"0", "1", "2", "3", "4", "5", "6", "7", "8", "9">>

\* fmt's %d of a non-negative integer, as a sequence of characters.
RECURSIVE FormatUint(_)
FormatUint(n) ==
  IF n < 10 THEN <<DigitChars[n + 1]>>
  ELSE FormatUint(n \div 10) \o <<DigitChars[(n % 10) + 1]>>

\* fmt.Sprintf("%dx%d", w, h)
SprintfSize(w, h) == FormatUint(w) \o <<"x">> \o FormatUint(h)

\* The "-s" argument of the video command: formatted from the header by the
\* live-pipe bridge, the literal "512x512" in the file-based bridge.
VideoSizeArg(v, w, h) ==
  IF v = "pipe" THEN SprintfSize(w, h) ELSE <<"5", "1", "2", "x", "5", "1", "2">>

\* VideoWidth, VideoHeight of the video TrackPublicationOptions.
VideoTrackDims(v, w, h) == IF v = "pipe" THEN <<w, h>> ELSE <<512, 512>>

\* --------------------------------------------------------------- lifecycle
\* CountAfter without the reset on a non-empty snapshot.
CountAfterMut(c, n) == IF n = 0 THEN c + 1 ELSE c

\* noParticipantsCount after a snapshot of n remote participants.
CountAfter(c, n) == IF n = 0 THEN c + 1 ELSE 0

\* ShouldExit with the break one snapshot early.
ShouldExitMut(c, n) == n = 0 /\ CountAfter(c, n) >= Threshold - 1

\* The break condition of the monitor loop.
ShouldExit(c, n) == n = 0 /\ CountAfter(c, n) >= Threshold

\* ------------------------------------------------------- timing statistics
UpdateMax(mx, e) == IF e > mx THEN e ELSE mx

\* UpdateMin with the comparison turned round.
UpdateMinMut(mn, e) == IF e > mn THEN e ELSE mn

UpdateMin(mn, e) == IF e < mn THEN e ELSE mn

\* frameCount after a video callback that is not the first.
CountFrame(c) == c + 1

\* --------------------------------------------------------- wrapping readers
\* The buffer p a publisher passes to Read, before the call fills it.
FreshBuffer(len) == [i \in 1..len |-> 255]

\* What <<n, err>> and the buffer are when no Read has been called yet.
NoResult == [n |-> 0, err |-> "nil", buf |-> <<>>]

NoRead == [kind |-> "none", wrapper |-> "none", ret |-> NoResult, got |-> NoResult,
           log |-> <<>>]

\* One Read(p) on the StdoutPipe of an encoder that has written out so far, st
\* being the state of the pipe's read end and m the most the kernel hands over
\* this time: the next bytes are copied to the front of p and counted, or, with
\* nothing left to read, the result is 0, io.EOF.
StdoutRead(out, st, p, m) ==
  LET avail == Len(out) - st.pos
      n     == Min(m, Min(avail, Len(p)))
  IN IF avail > 0
       THEN [st  |-> [pos |-> st.pos + n, calls |-> st.calls + 1],
             n   |-> n,
             err |-> "nil",
             buf |-> [i \in 1..Len(p) |-> IF i <= n THEN out[st.pos + i] ELSE p[i]]]
       ELSE [st  |-> [pos |-> st.pos, calls |-> st.calls + 1],
             n   |-> 0,
             err |-> "EOF",
             buf |-> p]

\* DebugReader.Read going on reading until the buffer is full.
DebugReaderReadMut(v, out, st, p, m) ==
  LET r == StdoutRead(out, st, p, m)
      q == IF r.n < Len(p) THEN StdoutRead(out, r.st, p, m) ELSE r
  IN [st  |-> q.st,
      n   |-> q.n,
      err |-> q.err,
      buf |-> q.buf,
      log |-> <<>>]

\* func (d *DebugReader) Read(p []byte) (n int, err error): the line it prints
\* is commented out in the live-pipe bridge.
DebugReaderRead(v, out, st, p, m) ==
  LET r == StdoutRead(out, st, p, m)
  IN [st  |-> r.st,
      n   |-> r.n,
      err |-> r.err,
      buf |-> r.buf,
      log |-> IF r.n > 0 /\ v = "file" THEN <<[line |-> "read", a |-> r.n, b |-> 0]>> ELSE <<>>]

\* p[i] of the Go slice p.
At(p, i) == p[i + 1]

\* The start-code test at offset i: 00 00 00 01 or 00 00 01.
StartCodeAt(p, i) ==
  \/ At(p, i) = 0 /\ At(p, i + 1) = 0 /\ At(p, i + 2) = 0 /\ At(p, i + 3) = 1
  \/ At(p, i) = 0 /\ At(p, i + 1) = 0 /\ At(p, i + 2) = 1

\* The lines "for i := 0; i < n-4; i++" prints from offset i on, the last start
\* code having been found at offset start.
RECURSIVE ScanLog(_, _, _, _)
ScanLog(p, n, i, start) ==
  IF i >= n - 4 THEN <<>>
  ELSE IF StartCodeAt(p, i)
    THEN (IF start < i THEN <<[line |-> "start code", a |-> i, b |-> i - start]>> ELSE <<>>)
           \o ScanLog(p, n, i + 1, i)
    ELSE ScanLog(p, n, i + 1, start)

\* func (h *H264Reader) Read(p []byte) (n int, err error)
H264ReaderRead(v, out, st, p, m) ==
  LET r == StdoutRead(out, st, p, m)
  IN [st  |-> r.st,
      n   |-> r.n,
      err |-> r.err,
      buf |-> r.buf,
      log |-> IF r.n > 0
                THEN ScanLog(r.buf, r.n, 0, 0) \o <<[line |-> "read", a |-> r.n, b |-> 0]>>
                ELSE <<>>]

\* ------------------------------------------------------------------- Init
Init ==
  /\ variant \in {"pipe", "file"}
  /\ pc = IF variant = "pipe" THEN "args" ELSE "env"
  /\ fatalAt = "none"
  /\ sndOrder \in IF variant = "pipe" THEN {"va", "av"} ELSE {"va"}
  /\ sndPc = IF variant = "pipe" THEN "open1" ELSE "none"
  /\ vHeader \in IF variant = "pipe" THEN VideoHeaders ELSE {<<>>}
  /\ vchan = <<>>
  /\ vtaken = <<>>
  /\ awritten = 0
  /\ ataken = <<>>
  /\ rdOpen = {}
  /\ wrOpen = {}
  /\ frameWidth = 0
  /\ frameHeight = 0
  /\ session = "none"
  /\ disconnects = 0
  /\ published = <<>>
  /\ trackDims = <<>>
  /\ sizeArg = <<>>
  /\ enc = [k \in Kinds |-> "none"]
  /\ kills = [k \in Kinds |-> 0]
  /\ track = [k \in Kinds |-> "none"]
  /\ peers = {}
  /\ noParticipantsCount = 0
  /\ hist = <<>>
  /\ sampleNo = 0
  /\ emptyFor = 0
  /\ sinceSeen = 0
  /\ frameCount = 0
  /\ lastFrameTime = 0
  /\ totalEncodeTime = 0
  /\ maxEncodeTime = 0
  /\ minEncodeTime = Hour
  /\ startTime = 0
  /\ firstVideoFrame = FALSE
  /\ firstAudioFrame = FALSE
  /\ audioFrameCount = 0
  /\ clock = 0
  /\ vCalls = 0
  /\ aCalls = 0
  /\ ivals = <<>>
  /\ videoStats = 0
  /\ audioStats = 0
  /\ foreign = {}
  /\ avgDivisors = {}
  /\ waited = 0
  /\ finalFrames = -1
  /\ firstAt = [k \in Kinds |-> -1]
  /\ prevAt = [k \in Kinds |-> -1]
  /\ gaps = [k \in Kinds |-> <<>>]
  /\ encOut = [k \in Kinds |-> IF k = "video" THEN <<9, 0, 0, 1, 5, 5>> ELSE <<79, 103>>]
  /\ emitN = [k \in Kinds |-> 0]
  /\ under = [k \in Kinds |-> [pos |-> 0, calls |-> 0]]
  /\ seen = [k \in Kinds |-> <<>>]
  /\ wCalls = [k \in Kinds |-> 0]
  /\ lastRead = NoRead

\* ------------------------------------------------- the bootstrap (func main)
\* What a statement of main leaves alone when it touches only its position.
OnlyMain == UNCHANGED <<pipeVars, hdrVars, sessVars, encVars, track, monVars, timeVars, ghostVars, readVars>>

\* The pipe the sender is opening, first or second in its order.
SenderOpening(k) ==
  \/ sndPc = "open1" /\ k = (IF sndOrder = "va" THEN "video" ELSE "audio")
  \/ sndPc = "open2" /\ k = (IF sndOrder = "va" THEN "audio" ELSE "video")

\* The bridge has pipe k open for reading, or is in the call that opens it.
ReaderAt(k) ==
  /\ ~Exited
  /\ \/ k \in rdOpen
     \/ pc = "openV" /\ k = "video"
     \/ pc = "openA" /\ k = "audio"

\* len(os.Args) < 2
CheckArgs ==
  /\ Step("args") \/ Fatal("args")
  /\ OnlyMain

\* godotenv.Load(".env.local")
LoadEnv ==
  /\ Step("env") \/ Fatal("env")
  /\ OnlyMain

\* syscall.Mkfifo(videoPipePath, 0666)
MkfifoVideo ==
  /\ Step("mkfifoV") \/ Fatal("mkfifoV")
  /\ OnlyMain

\* syscall.Mkfifo(audioPipePath, 0666)
MkfifoAudio ==
  /\ Step("mkfifoA") \/ Fatal("mkfifoA")
  /\ OnlyMain

\* os.OpenFile(path, os.O_RDONLY, 0666) of a FIFO: returns once a writer has
\* the FIFO open, is opening it, or has opened it during the call and closed it
\* again (a sender that has closed had opened both pipes); or fails.
OpenPipe(p, k) ==
  /\ \/ /\ k \in wrOpen \/ SenderOpening(k) \/ sndPc = "closed"
        /\ Step(p)
        /\ rdOpen' = rdOpen \cup {k}
     \/ /\ Fatal(p)
        /\ rdOpen' = {}
  /\ UNCHANGED <<sndOrder, sndPc, vHeader, vchan, vtaken, awritten, ataken, wrOpen>>
  /\ UNCHANGED <<hdrVars, sessVars, encVars, track, monVars, timeVars, ghostVars, readVars>>

OpenVideo == OpenPipe("openV", "video")

OpenAudio == OpenPipe("openA", "audio")

\* Unread bytes of the raw video pipe.
VideoAvail == Len(vchan) - Len(vtaken)

\* binary.Read(rawVideoPipe, binary.LittleEndian, &x) at statement p: io.ReadFull
\* of 4 bytes, which blocks until they are there or every writer has closed the
\* pipe; x is the decoded word, or the read fails and log.Fatal ends the process.
\* The result is <<ok, word>>.
ReadWord(p) ==
  /\ pc = p
  /\ VideoAvail >= WordLen \/ sndPc = "closed"
  /\ vtaken' = vtaken \o Tags(ReadFullTake(VideoAvail, WordLen), "main")
  /\ IF VideoAvail >= WordLen
       THEN Step(p) /\ rdOpen' = rdOpen
       ELSE Fatal(p) /\ rdOpen' = {}
  /\ UNCHANGED <<sndOrder, sndPc, vHeader, vchan, awritten, ataken, wrOpen>>
  /\ UNCHANGED <<sessVars, encVars, track, monVars, timeVars, ghostVars, readVars>>

\* The word binary.Read decodes: the next 4 unread bytes.
NextWord == LittleEndianUint32(SubSeq(vchan, Len(vtaken) + 1, Len(vtaken) + WordLen))

ReadWidth ==
  /\ ReadWord("readW")
  /\ frameWidth' = IF VideoAvail >= WordLen THEN NextWord ELSE frameWidth
  /\ UNCHANGED frameHeight

ReadHeight ==
  /\ ReadWord("readH")
  /\ frameHeight' = IF VideoAvail >= WordLen THEN NextWord ELSE frameHeight
  /\ UNCHANGED frameWidth

\* lksdk.ConnectToRoom; on error panic(err), which runs the deferred Close of
\* both raw pipes and ends the process.
Connect ==
  /\ \/ /\ Step("connect")
        /\ session' = "connected"
        /\ UNCHANGED rdOpen
     \/ /\ pc = "connect"
        /\ pc' = "panic"
        /\ fatalAt' = "connect"
        /\ rdOpen' = {}
        /\ UNCHANGED <<variant, session>>
  /\ UNCHANGED <<sndOrder, sndPc, vHeader, vchan, vtaken, awritten, ataken, wrOpen>>
  /\ UNCHANGED <<disconnects, published, trackDims>>
  /\ UNCHANGED <<hdrVars, encVars, track, monVars, timeVars, ghostVars, readVars>>

\* exec.Command("ffmpeg", ...) twice, and the binding of the raw pipes to the
\* commands' standard input.
BuildCommands ==
  /\ Step("cmds")
  /\ sizeArg' = VideoSizeArg(variant, frameWidth, frameHeight)
  /\ UNCHANGED <<enc, kills>>
  /\ UNCHANGED <<pipeVars, hdrVars, sessVars, track, monVars, timeVars, ghostVars, readVars>>

\* videoCmd.StdoutPipe()
StdoutPipeVideo ==
  /\ Step("pipeV") \/ Fatal("pipeV")
  /\ OnlyMain

\* audioCmd.StdoutPipe()
StdoutPipeAudio ==
  /\ Step("pipeA") \/ Fatal("pipeA")
  /\ OnlyMain

\* cmd.Start() of the encoder of kind k at statement p.
StartEncoder(p, k) ==
  /\ \/ /\ Step(p)
        /\ enc' = [enc EXCEPT ![k] = "running"]
     \/ /\ Fatal(p)
        /\ UNCHANGED enc
  /\ UNCHANGED <<sizeArg, kills>>
  /\ UNCHANGED <<pipeVars, hdrVars, sessVars, track, monVars, timeVars, ghostVars, readVars>>

StartVideo == StartEncoder("startV", "video")

StartAudio == StartEncoder("startA", "audio")

\* lksdk.NewLocalReaderTrack of kind k at statement p.
NewTrack(p, k) ==
  /\ \/ /\ Step(p)
        /\ track' = [track EXCEPT ![k] = "created"]
     \/ /\ Fatal(p)
        /\ UNCHANGED track
  /\ UNCHANGED <<pipeVars, hdrVars, sessVars, encVars, monVars, timeVars, ghostVars, readVars>>

NewVideoTrack == NewTrack("trackV", "video")

NewAudioTrack == NewTrack("trackA", "audio")

\* room.LocalParticipant.PublishTrack(audioTrack, ...): on success the track is
\* bound and its publisher starts draining the encoder's output.
PublishAudio ==
  /\ \/ /\ Step("pubA")
        /\ published' = Append(published, "audio")
        /\ track' = [track EXCEPT !["audio"] = "running"]
     \/ /\ Fatal("pubA")
        /\ UNCHANGED <<published, track>>
  /\ UNCHANGED <<session, disconnects, trackDims>>
  /\ UNCHANGED <<pipeVars, hdrVars, encVars, monVars, timeVars, ghostVars, readVars>>

\* room.LocalParticipant.PublishTrack(videoTrack, ...) with VideoWidth, VideoHeight.
PublishVideo ==
  /\ \/ /\ Step("pubV")
        /\ published' = Append(published, "video")
        /\ trackDims' = VideoTrackDims(variant, frameWidth, frameHeight)
        /\ track' = [track EXCEPT !["video"] = "running"]
     \/ /\ Fatal("pubV")
        /\ UNCHANGED <<published, trackDims, track>>
  /\ UNCHANGED <<session, disconnects>>
  /\ UNCHANGED <<pipeVars, hdrVars, encVars, monVars, timeVars, ghostVars, readVars>>

\* ------------------------------------------------------- the monitor loop
\* The window of the last MaxHist snapshots.
Window(h) == IF Len(h) > MaxHist THEN Tail(h) ELSE h

\* time.Sleep(1 * time.Second): one second passes.
Sleep ==
  /\ Step("sleep")
  /\ emptyFor' = IF peers = {} THEN Min(emptyFor + 1, AbsenceSecs) ELSE 0
  /\ sinceSeen' = Min(sinceSeen + 1, AbsenceSecs)
  /\ UNCHANGED <<peers, noParticipantsCount, hist, sampleNo>>
  /\ UNCHANGED <<pipeVars, hdrVars, sessVars, encVars, track, timeVars, ghostVars, readVars>>

\* remoteParticipants := room.GetRemoteParticipants() and the test of its length:
\* count the empty snapshot and break at the threshold, or reset the count.
Sample ==
  /\ pc = "sample"
  /\ LET n == Cardinality(peers) IN
       /\ noParticipantsCount' = CountAfter(noParticipantsCount, n)
       /\ pc' = IF ShouldExit(noParticipantsCount, n) THEN Succ(variant, "sample") ELSE "sleep"
       /\ hist' = Window(Append(hist, n = 0))
       /\ sinceSeen' = IF n = 0 THEN sinceSeen ELSE 0
  /\ sampleNo' = Min(sampleNo + 1, MaxHist + 1)
  /\ UNCHANGED <<variant, fatalAt, peers, emptyFor>>
  /\ UNCHANGED <<pipeVars, hdrVars, sessVars, encVars, track, timeVars, ghostVars, readVars>>

\* time.Sleep(60 * time.Second) of the file-based bridge.
WaitSecs == 60

Wait ==
  /\ Step("wait")
  /\ waited' = WaitSecs
  /\ UNCHANGED <<vCalls, aCalls, ivals, videoStats, audioStats, foreign, avgDivisors,
                 finalFrames, firstAt, prevAt, gaps>>
  /\ UNCHANGED <<pipeVars, hdrVars, sessVars, encVars, track, monVars, timeVars, readVars>>

\* ---------------------------------------------------------------- teardown
\* The shutdown has been signalled: main has left the monitor loop (or the
\* fixed wait) and is in, or past, the teardown.
Terminated == pc \in {"stats", "killV", "killA", "disc", "done"}

\* A read of timing variable v by task t, and whether the publisher whose
\* callback writes v had not ended at that moment.
Access(t, v, writer) == [by |-> t, var |-> v, live |-> track[writer] # "ended"]

\* The timing variables main reads for the final report.
FinalReads ==
  {Access("main", "frameCount", "video"), Access("main", "audioFrameCount", "audio")}
  \cup (IF frameCount > 0
          THEN {Access("main", v, "video") :
                  v \in {"totalEncodeTime", "minEncodeTime", "maxEncodeTime"}}
          ELSE {})

\* FinalStats with the video line, and its average, printed whatever frameCount
\* is.
FinalStatsMut ==
  /\ Step("stats")
  /\ videoStats' = videoStats + 1
  /\ audioStats' = audioStats + 1
  /\ avgDivisors' = avgDivisors \cup {frameCount}
  /\ foreign' = foreign \cup FinalReads
  /\ finalFrames' = frameCount
  /\ UNCHANGED <<vCalls, aCalls, ivals, waited, firstAt, prevAt, gaps>>
  /\ UNCHANGED <<pipeVars, hdrVars, sessVars, encVars, track, monVars, timeVars, readVars>>

\* "Print final stats": the video line when frameCount > 0, with the average
\* totalEncodeTime / frameCount, and the audio line.
FinalStats ==
  /\ Step("stats")
  /\ videoStats' = IF frameCount > 0 THEN videoStats + 1 ELSE videoStats
  /\ audioStats' = audioStats + 1
  /\ avgDivisors' = IF frameCount > 0 THEN avgDivisors \cup {frameCount} ELSE avgDivisors
  /\ foreign' = foreign \cup FinalReads
  /\ finalFrames' = frameCount
  /\ UNCHANGED <<vCalls, aCalls, ivals, waited, firstAt, prevAt, gaps>>
  /\ UNCHANGED <<pipeVars, hdrVars, sessVars, encVars, track, monVars, timeVars, readVars>>

\* Kill with the error of killing an ended process treated as fatal.
KillMut(p, k) ==
  /\ IF enc[k] = "running" THEN Step(p) ELSE Fatal(p)
  /\ kills' = [kills EXCEPT ![k] = @ + 1]
  /\ enc' = [enc EXCEPT ![k] = IF @ = "running" THEN "killed" ELSE @]
  /\ UNCHANGED sizeArg
  /\ UNCHANGED <<pipeVars, hdrVars, sessVars, track, monVars, timeVars, ghostVars, readVars>>

\* cmd.Process.Kill() of the encoder of kind k at statement p; the error of
\* killing a process that has already ended is dropped.
Kill(p, k) ==
  /\ Step(p)
  /\ kills' = [kills EXCEPT ![k] = @ + 1]
  /\ enc' = [enc EXCEPT ![k] = IF @ = "running" THEN "killed" ELSE @]
  /\ UNCHANGED sizeArg
  /\ UNCHANGED <<pipeVars, hdrVars, sessVars, track, monVars, timeVars, ghostVars, readVars>>

KillVideo == Kill("killV", "video")

KillAudio == Kill("killA", "audio")

\* room.Disconnect(), after which main returns: the deferred Close of the raw
\* pipes runs and the process ends, and with it both publishers.
Disconnect ==
  /\ Step("disc")
  /\ session' = "disconnected"
  /\ disconnects' = disconnects + 1
  /\ track' = [k \in Kinds |-> IF track[k] = "running" THEN "ended" ELSE track[k]]
  /\ rdOpen' = {}
  /\ UNCHANGED <<published, trackDims>>
  /\ UNCHANGED <<sndOrder, sndPc, vHeader, vchan, vtaken, awritten, ataken, wrOpen>>
  /\ UNCHANGED <<hdrVars, encVars, monVars, timeVars, ghostVars, readVars>>

\* --------------------------------------------------------------- callbacks
\* The clock reading, and the record of the invocation, of a callback of kind
\* k invoked at instant now.
Invoked(k, now) ==
  /\ clock' = now
  /\ firstAt' = IF firstAt[k] < 0 THEN [firstAt EXCEPT ![k] = now] ELSE firstAt
  /\ gaps' = IF prevAt[k] < 0 THEN gaps ELSE [gaps EXCEPT ![k] = Append(@, now - prevAt[k])]
  /\ prevAt' = [prevAt EXCEPT ![k] = now]

\* The OnWriteComplete callback of the video track, invoked d milliseconds
\* after the previous invocation of a callback of either kind (after the start
\* for the first one).
VideoCallback(d) ==
  /\ track["video"] = "running"
  /\ ~Exited
  /\ Invoked("video", clock + d)
  /\ LET now == clock + d
         encodeTime == now - lastFrameTime
     IN
       /\ IF ~firstVideoFrame
            THEN /\ startTime' = now
                 /\ firstVideoFrame' = TRUE
                 /\ UNCHANGED <<totalEncodeTime, frameCount, maxEncodeTime, minEncodeTime,
                                avgDivisors, ivals>>
            ELSE /\ totalEncodeTime' = totalEncodeTime + encodeTime
                 /\ frameCount' = CountFrame(frameCount)
                 /\ maxEncodeTime' = UpdateMax(maxEncodeTime, encodeTime)
                 /\ minEncodeTime' = UpdateMin(minEncodeTime, encodeTime)
                 /\ avgDivisors' = IF frameCount' % VideoReportEvery = 0
                                     THEN avgDivisors \cup {frameCount'}
                                     ELSE avgDivisors
                 /\ ivals' = Append(ivals, encodeTime)
                 /\ UNCHANGED <<startTime, firstVideoFrame>>
       /\ lastFrameTime' = now
  /\ vCalls' = vCalls + 1
  /\ UNCHANGED <<firstAudioFrame, audioFrameCount>>
  /\ UNCHANGED <<aCalls, videoStats, audioStats, foreign, waited, finalFrames>>
  /\ UNCHANGED <<mainVars, pipeVars, hdrVars, sessVars, encVars, track, monVars, readVars>>

\* AudioCallback keeping its reading of the clock in lastFrameTime.
AudioCallbackMut(d) ==
  /\ track["audio"] = "running"
  /\ ~Exited
  /\ Invoked("audio", clock + d)
  /\ IF ~firstAudioFrame
       THEN /\ firstAudioFrame' = TRUE
            /\ foreign' = foreign \cup {Access("audio", "startTime", "video")}
            /\ UNCHANGED audioFrameCount
       ELSE /\ audioFrameCount' = audioFrameCount + 1
            /\ foreign' = IF audioFrameCount' % AudioReportEvery = 0
                            THEN foreign \cup {Access("audio", "startTime", "video")}
                            ELSE foreign
            /\ UNCHANGED firstAudioFrame
  /\ aCalls' = aCalls + 1
  /\ lastFrameTime' = clock + d
  /\ UNCHANGED <<frameCount, totalEncodeTime, maxEncodeTime, minEncodeTime,
                 startTime, firstVideoFrame>>
  /\ UNCHANGED <<vCalls, ivals, videoStats, audioStats, avgDivisors, waited, finalFrames>>
  /\ UNCHANGED <<mainVars, pipeVars, hdrVars, sessVars, encVars, track, monVars, readVars>>

\* The OnWriteComplete callback of the audio track, invoked d milliseconds
\* after the previous invocation of a callback of either kind. It reads
\* startTime, which the video callback writes, for its first-frame line and its
\* periodic line.
AudioCallback(d) ==
  /\ track["audio"] = "running"
  /\ ~Exited
  /\ Invoked("audio", clock + d)
  /\ IF ~firstAudioFrame
       THEN /\ firstAudioFrame' = TRUE
            /\ foreign' = foreign \cup {Access("audio", "startTime", "video")}
            /\ UNCHANGED audioFrameCount
       ELSE /\ audioFrameCount' = audioFrameCount + 1
            /\ foreign' = IF audioFrameCount' % AudioReportEvery = 0
                            THEN foreign \cup {Access("audio", "startTime", "video")}
                            ELSE foreign
            /\ UNCHANGED firstAudioFrame
  /\ aCalls' = aCalls + 1
  /\ UNCHANGED <<frameCount, lastFrameTime, totalEncodeTime, maxEncodeTime, minEncodeTime,
                 startTime, firstVideoFrame>>
  /\ UNCHANGED <<vCalls, ivals, videoStats, audioStats, avgDivisors, waited, finalFrames>>
  /\ UNCHANGED <<mainVars, pipeVars, hdrVars, sessVars, encVars, track, monVars, readVars>>

\* At most m invocations of the video callback, at intervals drawn from S.
VideoFrame(S, m) == vCalls < m /\ \E d \in S : VideoCallback(d)

\* At most m invocations of the audio callback, at intervals drawn from S.
AudioFrame(S, m) == aCalls < m /\ \E d \in S : AudioCallback(d)

\* ------------------------------------------------------------- environment
\* A remote participant joins the room the bridge is connected to.
PeerJoin(p) ==
  /\ session = "connected"
  /\ ~Exited
  /\ p \notin peers
  /\ peers' = peers \cup {p}
  /\ emptyFor' = IF pc \in {"sleep", "sample"} THEN 0 ELSE emptyFor
  /\ UNCHANGED <<noParticipantsCount, hist, sampleNo, sinceSeen>>
  /\ UNCHANGED <<mainVars, pipeVars, hdrVars, sessVars, encVars, track, timeVars, ghostVars, readVars>>

\* A remote participant leaves the room.
PeerLeave(p) ==
  /\ session = "connected"
  /\ ~Exited
  /\ p \in peers
  /\ peers' = peers \ {p}
  /\ UNCHANGED <<noParticipantsCount, hist, sampleNo, emptyFor, sinceSeen>>
  /\ UNCHANGED <<mainVars, pipeVars, hdrVars, sessVars, encVars, track, timeVars, ghostVars, readVars>>

\* The sender's open of a FIFO for writing returns once the bridge has the FIFO
\* open for reading or is opening it.
SenderOpen ==
  /\ \E k \in Kinds :
       /\ SenderOpening(k)
       /\ ReaderAt(k)
       /\ wrOpen' = wrOpen \cup {k}
  /\ sndPc' = IF sndPc = "open1" THEN "open2" ELSE "header"
  /\ UNCHANGED <<sndOrder, vHeader, vchan, vtaken, awritten, ataken, rdOpen>>
  /\ UNCHANGED <<mainVars, hdrVars, sessVars, encVars, track, monVars, timeVars, ghostVars, readVars>>

\* The sender writes the next byte of the video header.
SenderWriteHeader ==
  /\ sndPc = "header"
  /\ vchan' = Append(vchan, vHeader[Len(vchan) + 1])
  /\ sndPc' = IF Len(vchan') = Len(vHeader) THEN "sent" ELSE "header"
  /\ UNCHANGED <<sndOrder, vHeader, vtaken, awritten, ataken, rdOpen, wrOpen>>
  /\ UNCHANGED <<mainVars, hdrVars, sessVars, encVars, track, monVars, timeVars, ghostVars, readVars>>

\* The sender writes one byte of frame data to the pipe of kind k.
SenderData(k) ==
  /\ sndPc = "sent"
  /\ IF k = "video"
       THEN /\ Len(vchan) < Len(vHeader) + MaxData
            /\ vchan' = Append(vchan, 0)
            /\ UNCHANGED awritten
       ELSE /\ awritten < MaxData
            /\ awritten' = awritten + 1
            /\ UNCHANGED vchan
  /\ UNCHANGED <<sndOrder, sndPc, vHeader, vtaken, ataken, rdOpen, wrOpen>>
  /\ UNCHANGED <<mainVars, hdrVars, sessVars, encVars, track, monVars, timeVars, ghostVars, readVars>>

\* The sender closes both pipes (or dies), possibly in the middle of the header.
SenderClose ==
  /\ sndPc \in {"header", "sent"}
  /\ sndPc' = "closed"
  /\ wrOpen' = {}
  /\ UNCHANGED <<sndOrder, vHeader, vchan, vtaken, awritten, ataken, rdOpen>>
  /\ UNCHANGED <<mainVars, hdrVars, sessVars, encVars, track, monVars, timeVars, ghostVars, readVars>>

\* The encoder of kind k reads one byte of its standard input, the raw pipe.
EncoderRead(k) ==
  /\ enc[k] = "running"
  /\ IF k = "video"
       THEN /\ VideoAvail > 0
            /\ vtaken' = Append(vtaken, "enc")
            /\ UNCHANGED ataken
       ELSE /\ awritten - Len(ataken) > 0
            /\ ataken' = Append(ataken, "enc")
            /\ UNCHANGED vtaken
  /\ UNCHANGED <<sndOrder, sndPc, vHeader, vchan, awritten, rdOpen, wrOpen>>
  /\ UNCHANGED <<mainVars, hdrVars, sessVars, encVars, track, monVars, timeVars, ghostVars, readVars>>

\* The encoder of kind k ends by itself: end of its input, or a crash.
EncoderExit(k) ==
  /\ enc[k] = "running"
  /\ enc' = [enc EXCEPT ![k] = "exited"]
  /\ UNCHANGED <<sizeArg, kills>>
  /\ UNCHANGED <<mainVars, pipeVars, hdrVars, sessVars, track, monVars, timeVars, ghostVars, readVars>>

\* The publisher of kind k reaches the end of the compressed stream of an
\* encoder that has ended, and stops.
PublisherEnd(k) ==
  /\ track[k] = "running"
  /\ enc[k] # "running"
  /\ ~Exited
  /\ track' = [track EXCEPT ![k] = "ended"]
  /\ UNCHANGED <<mainVars, pipeVars, hdrVars, sessVars, encVars, monVars, timeVars, ghostVars, readVars>>

\* The encoder of kind k writes the next byte of its output to its standard
\* output.
EncoderWrite(k) ==
  /\ enc[k] = "running"
  /\ emitN[k] < Len(encOut[k])
  /\ emitN' = [emitN EXCEPT ![k] = @ + 1]
  /\ UNCHANGED <<encOut, under, seen, wCalls, lastRead>>
  /\ UNCHANGED <<mainVars, pipeVars, hdrVars, sessVars, encVars, track, monVars, timeVars,
                 ghostVars>>

\* The publisher of kind k calls Read on a wrapping reader of type w with a
\* buffer of length len; the call returns once the encoder has written a byte
\* not yet read or has ended. The publisher keeps the n bytes it was handed and
\* stops at an error. (main wraps both outputs in a DebugReader; H264Reader is
\* declared with the same underlying reader and is exercised on the same
\* streams.)
PublisherRead(k, w, len, m) ==
  /\ track[k] = "running"
  /\ ~Exited
  /\ emitN[k] > under[k].pos \/ enc[k] # "running"
  /\ LET out == SubSeq(encOut[k], 1, emitN[k])
         p   == FreshBuffer(len)
         r   == IF w = "debug" THEN DebugReaderRead(variant, out, under[k], p, m)
                ELSE H264ReaderRead(variant, out, under[k], p, m)
         g   == StdoutRead(out, under[k], p, m)
     IN
       /\ under' = [under EXCEPT ![k] = r.st]
       /\ seen' = [seen EXCEPT ![k] = @ \o SubSeq(r.buf, 1, r.n)]
       /\ lastRead' = [kind |-> k, wrapper |-> w,
                       ret |-> [n |-> r.n, err |-> r.err, buf |-> r.buf],
                       got |-> [n |-> g.n, err |-> g.err, buf |-> g.buf],
                       log |-> r.log]
       /\ track' = [track EXCEPT ![k] = IF r.err = "nil" THEN @ ELSE "ended"]
  /\ wCalls' = [wCalls EXCEPT ![k] = @ + 1]
  /\ UNCHANGED <<encOut, emitN>>
  /\ UNCHANGED <<mainVars, pipeVars, hdrVars, sessVars, encVars, monVars, timeVars, ghostVars>>

\* ---------------------------------------------------------- specifications
MainStep ==
  \/ CheckArgs \/ LoadEnv \/ MkfifoVideo \/ MkfifoAudio
  \/ OpenVideo \/ OpenAudio \/ ReadWidth \/ ReadHeight
  \/ Connect \/ BuildCommands \/ StdoutPipeVideo \/ StdoutPipeAudio
  \/ StartVideo \/ StartAudio \/ NewVideoTrack \/ NewAudioTrack
  \/ PublishAudio \/ PublishVideo
  \/ Sleep \/ Sample \/ Wait
  \/ FinalStats \/ KillVideo \/ KillAudio \/ Disconnect

SenderStep == SenderOpen \/ SenderWriteHeader \/ SenderClose

\* The bridge with its sender, its encoders, its publishers and the peers of
\* the room. The callbacks are left out: they change the timing variables
\* only, which no statement of main reads before the final report.
Next ==
  \/ MainStep
  \/ SenderStep
  \/ \E p \in Peers : PeerJoin(p)
  \/ \E p \in Peers : PeerLeave(p)
  \/ \E k \in Kinds : EncoderExit(k)
  \/ \E k \in Kinds : PublisherEnd(k)

Spec == Init /\ [][Next]_vars

\* The same, with main always scheduled: a goroutine that can take its next
\* step does take it.
FairSpec == Init /\ [][Next]_vars /\ WF_vars(MainStep)

\* A call of main fails for a reason outside the bridge: every fatal end but
\* that of a header read, which fails only when the sender has closed the pipe.
CallFails == pc' \in {"fatal", "panic"} /\ pc \notin {"readW", "readH"}

\* The bridge with main scheduled as long as a call of it can return without
\* such a failure, and a sender that goes on to open its pipes and to write the
\* header whenever it is not blocked.
OpenFairSpec ==
  /\ Init
  /\ [][Next]_vars
  /\ WF_vars(MainStep /\ ~CallFails)
  /\ WF_vars(SenderOpen)
  /\ WF_vars(SenderWriteHeader)

\* The bridge in a room no remote peer ever joins (the live-pipe bridge then
\* leaves its monitor loop at the third snapshot), with frames delivered by both
\* publishers at any moment from publication on.
TimingNext ==
  \/ MainStep
  \/ SenderStep
  \/ \E k \in Kinds : EncoderExit(k)
  \/ \E k \in Kinds : PublisherEnd(k)
  \/ VideoFrame(RunIntervals, MaxFrames)
  \/ AudioFrame(AudioIntervals, MaxFrames)

TimingSpec == Init /\ [][TimingNext]_vars

\* The bridge in a room no remote peer ever joins, with the raw bytes the
\* sender writes after the header and the encoders' reads of their standard
\* input.
PipeNext ==
  \/ MainStep
  \/ SenderStep
  \/ \E k \in Kinds : SenderData(k)
  \/ \E k \in Kinds : EncoderRead(k)
  \/ \E k \in Kinds : EncoderExit(k)

PipeSpec == Init /\ [][PipeNext]_vars

\* The two publishers alone, from the moment the live-pipe bridge has published
\* both tracks of a 512x288 stream and a peer is in the room.
StatsInit ==
  /\ variant = "pipe"
  /\ pc = "sleep"
  /\ fatalAt = "none"
  /\ sndOrder = "va"
  /\ sndPc = "sent"
  /\ vHeader = <<0, 2, 0, 0, 32, 1, 0, 0>>
  /\ vchan = vHeader
  /\ vtaken = Tags(2 * WordLen, "main")
  /\ awritten = 0
  /\ ataken = <<>>
  /\ rdOpen = Kinds
  /\ wrOpen = Kinds
  /\ frameWidth = 512
  /\ frameHeight = 288
  /\ session = "connected"
  /\ disconnects = 0
  /\ published = <<"audio", "video">>
  /\ trackDims = <<512, 288>>
  /\ sizeArg = <<"5", "1", "2", "x", "2", "8", "8">>
  /\ enc = [k \in Kinds |-> "running"]
  /\ kills = [k \in Kinds |-> 0]
  /\ track = [k \in Kinds |-> "running"]
  /\ peers = Peers
  /\ noParticipantsCount = 0
  /\ hist = <<>>
  /\ sampleNo = 0
  /\ emptyFor = 0
  /\ sinceSeen = 0
  /\ frameCount = 0
  /\ lastFrameTime = 0
  /\ totalEncodeTime = 0
  /\ maxEncodeTime = 0
  /\ minEncodeTime = Hour
  /\ startTime = 0
  /\ firstVideoFrame = FALSE
  /\ firstAudioFrame = FALSE
  /\ audioFrameCount = 0
  /\ clock = 0
  /\ vCalls = 0
  /\ aCalls = 0
  /\ ivals = <<>>
  /\ videoStats = 0
  /\ audioStats = 0
  /\ foreign = {}
  /\ avgDivisors = {}
  /\ waited = 0
  /\ finalFrames = -1
  /\ firstAt = [k \in Kinds |-> -1]
  /\ prevAt = [k \in Kinds |-> -1]
  /\ gaps = [k \in Kinds |-> <<>>]
  /\ encOut = [k \in Kinds |-> IF k = "video" THEN <<9, 0, 0, 1, 5, 5>> ELSE <<79, 103>>]
  /\ emitN = [k \in Kinds |-> 0]
  /\ under = [k \in Kinds |-> [pos |-> 0, calls |-> 0]]
  /\ seen = [k \in Kinds |-> <<>>]
  /\ wCalls = [k \in Kinds |-> 0]
  /\ lastRead = NoRead

StatsNext ==
  \/ VideoFrame(StatIntervals, MaxStatFrames)
  \/ AudioFrame(AudioIntervals, MaxStatFrames)

StatsSpec == StatsInit /\ [][StatsNext]_vars

\* The live-pipe bridge from the moment both tracks are published to the end
\* of main, with a peer that may leave and a video publisher that delivers
\* frames enough for a periodic report.
ReportNext ==
  \/ Sleep \/ Sample
  \/ FinalStats \/ KillVideo \/ KillAudio \/ Disconnect
  \/ \E p \in Peers : PeerLeave(p)
  \/ VideoFrame(RunIntervals, MaxReportFrames)

ReportSpec == StatsInit /\ [][ReportNext]_vars

\* The two encoders and the two publishers' reads alone, from the moment the
\* live-pipe bridge has published both tracks of a 512x288 stream.
ReadInit ==
  /\ variant = "pipe"
  /\ pc = "sleep"
  /\ fatalAt = "none"
  /\ sndOrder = "va"
  /\ sndPc = "sent"
  /\ vHeader = <<0, 2, 0, 0, 32, 1, 0, 0>>
  /\ vchan = vHeader
  /\ vtaken = Tags(Len(vHeader), "main")
  /\ awritten = 0
  /\ ataken = <<>>
  /\ rdOpen = Kinds
  /\ wrOpen = rdOpen
  /\ frameWidth = 512
  /\ frameHeight = 288
  /\ session = "connected"
  /\ disconnects = 0
  /\ published = <<"audio", "video">>
  /\ trackDims = VideoTrackDims(variant, frameWidth, frameHeight)
  /\ sizeArg = VideoSizeArg(variant, frameWidth, frameHeight)
  /\ enc = [k \in Kinds |-> "running"]
  /\ kills = [k \in Kinds |-> 0]
  /\ track = [k \in Kinds |-> "running"]
  /\ peers = {}
  /\ noParticipantsCount = 0
  /\ hist = <<>>
  /\ sampleNo = 0
  /\ emptyFor = 0
  /\ sinceSeen = 0
  /\ frameCount = 0
  /\ lastFrameTime = 0
  /\ totalEncodeTime = 0
  /\ maxEncodeTime = 0
  /\ minEncodeTime = Hour
  /\ startTime = 0
  /\ firstVideoFrame = FALSE
  /\ firstAudioFrame = FALSE
  /\ audioFrameCount = 0
  /\ clock = 0
  /\ vCalls = 0
  /\ aCalls = 0
  /\ ivals = <<>>
  /\ videoStats = 0
  /\ audioStats = 0
  /\ foreign = {}
  /\ avgDivisors = {}
  /\ waited = 0
  /\ finalFrames = -1
  /\ firstAt = [k \in Kinds |-> -1]
  /\ prevAt = [k \in Kinds |-> -1]
  /\ gaps = [k \in Kinds |-> <<>>]
  /\ encOut \in [Kinds -> VideoOutputs \cup AudioOutputs]
  /\ encOut["video"] \in VideoOutputs
  /\ encOut["audio"] \in AudioOutputs
  /\ emitN = [k \in Kinds |-> 0]
  /\ under = [k \in Kinds |-> [pos |-> 0, calls |-> 0]]
  /\ seen = [k \in Kinds |-> <<>>]
  /\ wCalls = [k \in Kinds |-> 0]
  /\ lastRead = NoRead

ReadNext ==
  \/ \E k \in Kinds : EncoderWrite(k)
  \/ \E k \in Kinds : EncoderExit(k)
  \/ \E k \in Kinds, w \in Wrappers, len \in BufLens, m \in {1, BufLen} :
       PublisherRead(k, w, len, m)

ReaderSpec == ReadInit /\ [][ReadNext]_vars

\* ================================================================== claims

\* The shutdown of the live-pipe bridge has been signalled.
Signalled == variant = "pipe" /\ Terminated

\* The number of empty snapshots at the end of h.
RECURSIVE TrailingEmpty(_)
TrailingEmpty(h) ==
  IF h = <<>> \/ ~h[Len(h)] THEN 0
  ELSE 1 + TrailingEmpty(SubSeq(h, 1, Len(h) - 1))

\* Snapshots i-2, i-1, i of h are all empty.
EmptyRunAt(h, i) == i >= Threshold /\ \A j \in (i - Threshold + 1)..i : h[j]

\* C1: in the live-pipe bridge the counter equals the number of consecutive
\* empty snapshots at the end of the snapshot sequence, so it starts at 0, grows
\* by 1 with an empty snapshot and falls to 0 with a non-empty one; it never
\* exceeds 3; and shutdown is signalled exactly when the last 3 snapshots are
\* empty, no 3 consecutive empty snapshots ending at any earlier sample.
C1_Hysteresis ==
  variant = "pipe" =>
    /\ noParticipantsCount = TrailingEmpty(hist)
    /\ noParticipantsCount \in 0..Threshold
    /\ Terminated <=> EmptyRunAt(hist, Len(hist))
    /\ \A i \in 1..(Len(hist) - 1) : ~EmptyRunAt(hist, i)
    /\ (sampleNo = 3 /\ hist = <<TRUE, TRUE, FALSE>>) => ~Terminated

\* C1 witness: [empty, empty, non-empty, empty, empty, empty] shuts down at
\* sample 6.
C1_Witness ==
  /\ Signalled
  /\ sampleNo = 6
  /\ hist = <<TRUE, TRUE, FALSE, TRUE, TRUE, TRUE>>

\* C2 (as claimed): in the live-pipe bridge, once a publisher's stream has
\* ended mid-session, the bridge eventually kills both encoders and disconnects.
C2_StreamEndTearsDown ==
  (variant = "pipe" /\ pc \in {"sleep", "sample"} /\ \E k \in Kinds : track[k] = "ended")
    ~> (kills["video"] > 0 /\ kills["audio"] > 0 /\ disconnects > 0)

\* C4 (as claimed): whenever the live-pipe bridge signals shutdown, the room
\* has been empty without a break for the last 3 seconds.
C4_ContinuousAbsence == Signalled => emptyFor >= AbsenceSecs

\* C4 (amended): whenever the live-pipe bridge signals shutdown, the room was
\* empty at the instant of each of the last 3 snapshots, and at least 3 seconds
\* have passed since a snapshot last showed a peer (or since monitoring began).
C4_SampledAbsence ==
  Signalled =>
    /\ Len(hist) >= AbsenceSecs
    /\ \A j \in (Len(hist) - AbsenceSecs + 1)..Len(hist) : hist[j]
    /\ sinceSeen >= AbsenceSecs

\* C4 witness: shutdown is signalled although a peer was in the room within
\* the last 3 seconds, between two snapshots.
C4_Witness == Signalled /\ emptyFor < AbsenceSecs

\* The fatal startup errors the claim lists.
StartupErrors ==
  {"env", "mkfifoV", "mkfifoA", "openV", "openA", "readW", "readH", "connect",
   "pipeV", "pipeA", "startV", "startA"}

\* C7 (as claimed): in the live-pipe bridge no fatal abort occurs once a track
\* has been published.
C7_NoFatalAfterPublish ==
  (variant = "pipe" /\ pc \in {"fatal", "panic"}) => published = <<>>

\* C7 (amended): in the live-pipe bridge every fatal startup error aborts the
\* bridge with no track published, and nothing is published after the process
\* has ended; the only fatal abort with a track published is the failure to
\* publish the second track, the video track, after the audio track.
C7_StartupFatalBeforePublish ==
  /\ [](variant = "pipe" /\ pc \in {"fatal", "panic"} =>
          /\ fatalAt \in StartupErrors => published = <<>>
          /\ published # <<>> => fatalAt = "pubV" /\ published = <<"audio">>)
  /\ [][variant = "pipe" /\ Exited => published' = published]_vars

\* C7 witness: the audio encoder fails to start, with no track published.
C7_Witness ==
  /\ variant = "pipe"
  /\ pc = "fatal"
  /\ fatalAt = "startA"
  /\ published = <<>>

\* C8 (as claimed): when the process of the live-pipe bridge has ended, no
\* encoder that was started is still running and a session that was connected
\* has been disconnected.
C8_ExitReleasesAll ==
  (variant = "pipe" /\ Exited) =>
    /\ \A k \in Kinds : enc[k] # "running"
    /\ session # "connected"

\* C3 (as claimed): in both variants, once main has ended after the shutdown
\* signal, the final statistics of both media kinds have been printed once, both
\* encoders have been killed once and the session has been disconnected once;
\* none of it happens before the signal.
C3_TeardownAllThree ==
  /\ ~Terminated =>
       /\ videoStats = 0 /\ audioStats = 0
       /\ \A k \in Kinds : kills[k] = 0
       /\ disconnects = 0
  /\ pc = "done" =>
       /\ videoStats = 1 /\ audioStats = 1
       /\ \A k \in Kinds : kills[k] = 1
       /\ disconnects = 1

\* C3 (amended): in both variants, once main has ended after the shutdown
\* signal, the audio statistics have been printed once, both encoders have been
\* killed once and the session has been disconnected once; the video statistics
\* have been printed once if the final report found at least one interval
\* recorded (frameCount > 0) and not at all otherwise; none of it happens
\* before the signal, and none of it ever happens twice.
C3_TeardownOnce ==
  /\ ~Terminated =>
       /\ videoStats = 0 /\ audioStats = 0
       /\ \A k \in Kinds : kills[k] = 0
       /\ disconnects = 0
       /\ finalFrames = -1
  /\ pc = "done" =>
       /\ videoStats = (IF finalFrames > 0 THEN 1 ELSE 0)
       /\ finalFrames >= 0
       /\ audioStats = 1
       /\ \A k \in Kinds : kills[k] = 1
       /\ disconnects = 1
  /\ videoStats <= 1 /\ audioStats <= 1 /\ disconnects <= 1
  /\ \A k \in Kinds : kills[k] <= 1

\* C3 witness: the file-based bridge has torn down after a run in which a
\* single video frame was delivered, so no interval was recorded.
C3_Witness ==
  /\ variant = "file"
  /\ pc = "done"
  /\ vCalls = 1
  /\ finalFrames = 0
  /\ videoStats = 0
  /\ audioStats = 1

\* C6 (as claimed): in the live-pipe bridge a timing variable is read by no
\* task but the callback that writes it, except by main once the publisher of
\* that callback has ended.
C6_TimingNotShared ==
  variant = "pipe" => \A a \in foreign : a.by = "main" /\ ~a.live

\* The sum of a sequence of intervals.
RECURSIVE Sum(_)
Sum(q) == IF q = <<>> THEN 0 ELSE q[1] + Sum(Tail(q))

\* C5: after N >= 2 invocations of the video callback the interval count is
\* N - 1, the total is the sum of the N - 1 intervals, and
\* min <= total / count <= max.
C5_StatsAfterN ==
  vCalls >= 2 =>
    /\ frameCount = vCalls - 1
    /\ Len(ivals) = vCalls - 1
    /\ totalEncodeTime = Sum(ivals)
    /\ minEncodeTime <= totalEncodeTime \div frameCount
    /\ totalEncodeTime \div frameCount <= maxEncodeTime

\* C5 witness: MaxStatFrames invocations at unequal intervals, one of them zero
\* and one longer than an hour.
C5_Witness ==
  /\ vCalls = MaxStatFrames
  /\ minEncodeTime = 0
  /\ maxEncodeTime = Hour + 40
  /\ minEncodeTime < totalEncodeTime \div frameCount
  /\ totalEncodeTime \div frameCount < maxEncodeTime

\* The little-endian value of the 4 bytes of s that follow offset off.
RECURSIVE BytesValue(_, _, _)
BytesValue(s, off, n) ==
  IF n = 0 THEN 0 ELSE s[off + 1] + 256 * BytesValue(s, off + 1, n - 1)

\* The value of a sequence of decimal digit characters.
RECURSIVE DecimalValue(_)
DecimalValue(q) ==
  IF q = <<>> THEN 0
  ELSE 10 * DecimalValue(SubSeq(q, 1, Len(q) - 1))
         + ((CHOOSE i \in 1..10 : DigitChars[i] = q[Len(q)]) - 1)

\* The <<width, height>> a "WxH" argument denotes.
SizeOfArg(a) ==
  LET x == CHOOSE i \in 1..Len(a) : a[i] = "x"
  IN <<DecimalValue(SubSeq(a, 1, x - 1)), DecimalValue(SubSeq(a, x + 1, Len(a)))>>

\* Main has read the width (resp. the height) from the pipe.
WidthRead == pc \notin {"args", "env", "mkfifoV", "mkfifoA", "openV", "openA", "readW"}
                /\ fatalAt \notin {"args", "env", "mkfifoV", "mkfifoA", "openV", "openA", "readW"}

HeightRead == WidthRead /\ pc # "readH" /\ fatalAt # "readH"

\* C9: in the live-pipe bridge main consumes bytes of the raw video pipe only
\* among its first 8, all 8 of them before the video encoder is started and
\* none after; the encoder's reads begin at offset 8; and main consumes no byte
\* of the raw audio pipe.
C9_HeaderConsumedOnce ==
  variant = "pipe" =>
    /\ \A i \in 1..Len(vtaken) : vtaken[i] = "main" <=> i <= 2 * WordLen
    /\ HeightRead => Len(vtaken) >= 2 * WordLen
    /\ enc["video"] # "none" => HeightRead
    /\ \A i \in 1..Len(ataken) : ataken[i] = "enc"

\* C9 witness: the video encoder has read the byte at offset 8, after the 8
\* bytes main read, and the audio encoder has read a byte.
C9_Witness ==
  /\ Len(vtaken) = 2 * WordLen + 1
  /\ vtaken[2 * WordLen + 1] = "enc"
  /\ Len(ataken) = 1

\* C10: in the live-pipe bridge the parsed width is the little-endian value of
\* bytes 0..3 and the parsed height that of bytes 4..7; the size argument of
\* the video encoder and the dimensions of the published video track denote the
\* same two values; and when the pipe is closed with fewer than 8 bytes written
\* the bridge has not connected to the session and has started no encoder.
C10_HeaderGeometry ==
  variant = "pipe" =>
    /\ WidthRead => frameWidth = BytesValue(vchan, 0, WordLen)
    /\ HeightRead => frameHeight = BytesValue(vchan, WordLen, WordLen)
    /\ sizeArg # <<>> =>
         SizeOfArg(sizeArg) = <<BytesValue(vchan, 0, WordLen), BytesValue(vchan, WordLen, WordLen)>>
    /\ trackDims # <<>> =>
         trackDims = <<BytesValue(vchan, 0, WordLen), BytesValue(vchan, WordLen, WordLen)>>
    /\ (sndPc = "closed" /\ Len(vchan) < 2 * WordLen) =>
         /\ session = "none"
         /\ \A k \in Kinds : enc[k] = "none"
         /\ published = <<>>
         /\ pc \in {"args", "env", "mkfifoV", "mkfifoA", "openV", "openA", "readW", "readH",
                    "fatal"}

\* C10 witness: the video track is published with the dimensions of the header
\* 01 02 03 04 05 06 07 08, and the encoder was given the same.
C10_Witness ==
  /\ trackDims = <<67305985, 134678021>>
  /\ sizeArg = FormatUint(67305985) \o <<"x">> \o FormatUint(134678021)
  /\ enc["video"] = "running"

\* The statements of the teardown that release a resource.
TeardownSteps == {"killV", "killA", "disc"}

\* C11: in both variants no statement of the teardown faults, whatever state
\* the two encoders are in; once the teardown has begun main goes on to its end;
\* and at its end each encoder has been killed once, none is running and the
\* session has been disconnected once.
C11_TeardownTolerant ==
  /\ [](fatalAt \notin TeardownSteps)
  /\ [](pc = "done" =>
          /\ \A k \in Kinds : kills[k] = 1 /\ enc[k] \in {"exited", "killed"}
          /\ disconnects = 1
          /\ session = "disconnected")
  /\ (Terminated ~> pc = "done")

\* C11 witness: the teardown has run to its end with the video encoder having
\* exited by itself before its kill and the audio encoder still alive at its.
C11_Witness ==
  /\ pc = "done"
  /\ enc = [k \in Kinds |-> IF k = "video" THEN "exited" ELSE "killed"]
  /\ \A k \in Kinds : kills[k] = 1
  /\ disconnects = 1

\* C12: the file-based bridge, once both tracks are published, reaches the
\* teardown, and is in the teardown only after the whole fixed wait has passed,
\* whatever the peers and the encoders do; it never takes a peer snapshot.
C12_FixedWait ==
  /\ [](variant = "file" =>
          /\ Terminated => (waited = WaitSecs /\ Len(published) = 2)
          /\ ~Terminated => waited = 0
          /\ sampleNo = 0 /\ hist = <<>> /\ noParticipantsCount = 0)
  /\ ((variant = "file" /\ Len(published) = 2) ~> Terminated)

\* C12 witness: the file-based bridge is in the teardown after its wait, with a
\* peer in the room and the video encoder having exited by itself.
C12_Witness ==
  /\ variant = "file"
  /\ Terminated
  /\ waited = WaitSecs
  /\ peers # {}
  /\ enc["video"] = "exited"

\* The bytes the encoder of kind k has written so far.
Emitted(k) == SubSeq(encOut[k], 1, emitN[k])

\* C14: every call of Read on a wrapping reader issues one Read on the
\* underlying stream; the count, the error and the buffer it returns are those
\* of that underlying Read; and what each publisher has been handed is, byte
\* for byte, the part of its encoder's output read from the pipe so far, the
\* whole output once the end of the stream was returned.
C14_ReadersTransparent ==
  /\ \A k \in Kinds :
       /\ under[k].calls = wCalls[k]
       /\ Len(seen[k]) = under[k].pos
       /\ Len(seen[k]) <= emitN[k]
       /\ seen[k] = SubSeq(Emitted(k), 1, Len(seen[k]))
       /\ track[k] = "ended" => seen[k] = Emitted(k)
  /\ lastRead.ret = lastRead.got

\* C14 witness: an H264Reader has handed over, in one call, a whole video
\* stream in which it logged a start code, leaving the bytes as they were.
C14_Witness ==
  /\ lastRead.wrapper = "h264"
  /\ lastRead.kind = "video"
  /\ lastRead.ret.n = Len(encOut["video"])
  /\ \E i \in 1..Len(lastRead.log) : lastRead.log[i].line = "start code"
  /\ seen["video"] = encOut["video"]

\* C15: in the live-pipe bridge a peer snapshot is taken only with both tracks
\* published, nothing is published once a snapshot has been taken, no snapshot
\* is taken once the session has been disconnected, and the session is
\* disconnected at most once, by the last statement of main.
C15_PublishMonitorDisconnect ==
  /\ [](variant = "pipe" =>
          /\ sampleNo > 0 => published = <<"audio", "video">>
          /\ disconnects <= 1
          /\ disconnects > 0 => pc = "done")
  /\ [][(variant = "pipe" /\ sampleNo > 0) => published' = published]_vars
  /\ [][(variant = "pipe" /\ disconnects > 0) =>
          (sampleNo' = sampleNo /\ hist' = hist /\ disconnects' = disconnects)]_vars

\* C15 witness: the live-pipe bridge has published both tracks, then taken
\* snapshots, one of them showing a peer, then disconnected.
C15_Witness ==
  /\ variant = "pipe"
  /\ pc = "done"
  /\ Len(published) = 2
  /\ sampleNo > Threshold
  /\ disconnects = 1

\* Invocations of the callback of kind k so far.
Calls(k) == IF k = "video" THEN vCalls ELSE aCalls

\* The count the callback of kind k keeps.
Count(k) == IF k = "video" THEN frameCount ELSE audioFrameCount

\* The start timestamps the callback of kind k has recorded: the video callback
\* assigns startTime, the audio callback assigns no timestamp.
StartStamps(k) == IF k = "video" /\ firstVideoFrame THEN {startTime} ELSE {}

\* The intervals the callback of kind k has measured: the video callback
\* computes encodeTime, the audio callback computes none.
Measured(k) == IF k = "video" THEN ivals ELSE <<>>

OpeningPipes == variant = "pipe" /\ pc \in {"openV", "openA"}

\* Both encoders have been started.
EncodersStarted == \A k \in Kinds : enc[k] # "none"

\* C17 (as claimed): the live-pipe bridge, once it is opening its pipes, goes
\* on to start both encoders (unless the process ends on an error), whichever
\* pipe the sender opens first.
C17_OpenNeverDeadlocks == OpeningPipes ~> (Exited \/ EncodersStarted)

\* C17 (amended): with a sender that opens the video pipe first, the live-pipe
\* bridge, once it is opening its pipes, goes on to start both encoders (unless
\* the process ends on an error); with a sender that opens the audio pipe
\* first, neither side ever completes an open and no encoder is started.
C17_VideoFirstNoDeadlock ==
  /\ (OpeningPipes /\ sndOrder = "va") ~> (Exited \/ EncodersStarted)
  /\ [](variant = "pipe" /\ sndOrder = "av" =>
          /\ rdOpen = {} /\ wrOpen = {}
          /\ sndPc = "open1"
          /\ pc \in {"args", "env", "mkfifoV", "mkfifoA", "openV", "fatal"}
          /\ \A k \in Kinds : enc[k] = "none")

\* C17 witness: both encoders are running after a sender opened the video pipe
\* first, then the audio pipe, and wrote the header.
C17_Witness ==
  /\ variant = "pipe"
  /\ sndOrder = "va"
  /\ sndPc = "sent"
  /\ rdOpen = Kinds /\ wrOpen = Kinds
  /\ \A k \in Kinds : enc[k] = "running"

\* The smallest and the largest element of a non-empty sequence of intervals.
RECURSIVE SeqMin(_)
SeqMin(q) == IF Len(q) = 1 THEN q[1] ELSE Min(q[1], SeqMin(Tail(q)))

RECURSIVE SeqMax(_)
SeqMax(q) == IF Len(q) = 1 THEN q[1] ELSE UpdateMax(SeqMax(Tail(q)), q[1])

\* C18 (as claimed): after two or more invocations of the video callback the
\* recorded min is the smallest and the recorded max the largest of the
\* intervals between successive invocations, whatever the intervals are.
C18_MinMaxExact ==
  vCalls >= 2 =>
    /\ minEncodeTime = SeqMin(gaps["video"])
    /\ maxEncodeTime = SeqMax(gaps["video"])

\* C19: no average is computed with a zero divisor, in the periodic report of
\* the video callback or in the final report: every divisor used is the
\* interval count of that moment and is at least 1, the periodic report divides
\* by a multiple of 100, and a final report that finds no interval recorded
\* prints no video line and divides by nothing.
C19_NoZeroDivisor ==
  /\ \A d \in avgDivisors : d >= 1 /\ d <= frameCount
  /\ \A d \in avgDivisors : d % VideoReportEvery = 0 \/ d = finalFrames
  /\ finalFrames = 0 => videoStats = 0
  /\ finalFrames > 0 => (finalFrames \in avgDivisors /\ videoStats = 1)
  /\ frameCount >= VideoReportEvery => VideoReportEvery \in avgDivisors

\* C19 witness: main has ended after a run in which the callback computed the
\* average at frame 100 and the final report computed it again.
C19_Witness ==
  /\ pc = "done"
  /\ VideoReportEvery \in avgDivisors
  /\ finalFrames = VideoReportEvery
  /\ vCalls = MaxReportFrames

====
